---- MODULE Spec2Model ----
(***************************************************************************)
(* Model of the stat calculator App (src/src/components/index.tsx) and of  *)
(* the Android overlay that is meant to trigger it (OverlayModule.java,    *)
(* OverlayService.java).                                                   *)
(*                                                                         *)
(* Representation choices:                                                 *)
(*  - a nullable value (useState<T | null>) is a sequence of length 0 or 1:*)
(*    NULL is <<>>, Some(x) is <<x>>;                                      *)
(*  - a string that the code scans (OCR text, TextInput text) is a tuple   *)
(*    of one-character strings;                                            *)
(*  - the coefficients have one decimal, so a per-stat score is kept       *)
(*    exactly, in hundredths: current * (10*dCoef) * (10*sCoef).           *)
(***************************************************************************)
EXTENDS Integers, Sequences, FiniteSets, Bags, TLC

VARIABLES
    stats,          \* useState<Stats | null>
    calculated,     \* useState<CalculatedResult | null>
    distance,       \* useState distance
    strategy,       \* useState strategy
    capturedImage,  \* useState<string | null>
    loading,        \* useState(false)
    overlayEnabled, \* useState(false)
    hasPermission,  \* useState(false)
    runs,           \* bag of the captureAndAnalyze invocations in flight
    request,        \* the CAPTURE_SCREEN Intent broadcast by OverlayService
    last,           \* the handler step taken last, with the alerts it raised
    edits,          \* number of manual edits so far
    ocrText,        \* input of the number extraction (pure-function specification)
    extracted       \* its result (pure-function specification)

vars == <<stats, calculated, distance, strategy, capturedImage, loading,
          overlayEnabled, hasPermission, runs, request, last, edits,
          ocrText, extracted>>

----------------------------------------------------------------------------
\* Nullable values

NULL == <<>>

Some(x) == <<x>>

Val(o) == o[1]

----------------------------------------------------------------------------
\* Types of index.tsx

StatNames == <<"speed", "stamina", "power", "guts", "wisdom">>

StatSet == {"speed", "stamina", "power", "guts", "wisdom"}

Fields == {"current", "max"}

Distances == {"short", "mile", "middle", "long"}

Strategies == {"nige", "senko", "sashi", "oikomi"}

\* The Stats value built from ten numbers in the order of performOCR's literal.
MkStats(n) ==
    [speed   |-> [current |-> n[1], max |-> n[2]],
     stamina |-> [current |-> n[3], max |-> n[4]],
     power   |-> [current |-> n[5], max |-> n[6]],
     guts    |-> [current |-> n[7], max |-> n[8]],
     wisdom  |-> [current |-> n[9], max |-> n[10]]]

\* The placeholder of captureAndAnalyze's else branch.
ZeroStats ==
    [speed   |-> [current |-> 0, max |-> 0],
     stamina |-> [current |-> 0, max |-> 0],
     power   |-> [current |-> 0, max |-> 0],
     guts    |-> [current |-> 0, max |-> 0],
     wisdom  |-> [current |-> 0, max |-> 0]]

----------------------------------------------------------------------------
\* Characters

DigitChars == {"0", "1", "2", "3", "4", "5", "6", "7", "8", "9"}

IsDigit(c) == c \in DigitChars

DigitVal(c) ==
    CASE c = "0" -> 0 [] c = "1" -> 1 [] c = "2" -> 2 [] c = "3" -> 3
      [] c = "4" -> 4 [] c = "5" -> 5 [] c = "6" -> 6 [] c = "7" -> 7
      [] c = "8" -> 8 [] c = "9" -> 9

IsSpace(c) == c \in {" ", "\n", "\t"}

\* Number of digit characters of s starting at position i, counted up to cap.
RECURSIVE DigitsFrom(_, _, _)
DigitsFrom(s, i, cap) ==
    IF cap = 0 \/ i > Len(s) \/ ~IsDigit(s[i]) THEN 0
    ELSE 1 + DigitsFrom(s, i + 1, cap - 1)

\* Decimal value of a tuple of digit characters.
RECURSIVE DecimalValue(_)
DecimalValue(ds) ==
    IF ds = <<>> THEN 0
    ELSE 10 * DecimalValue(SubSeq(ds, 1, Len(ds) - 1)) + DigitVal(ds[Len(ds)])

----------------------------------------------------------------------------
\* Number extraction (performOCR, after Tesseract.recognize has returned)

\* text.match(/\d{3,4}/g): the matches from position i on.  At each position
\* the quantifier is greedy (up to four digits); a match needs three; the
\* scan resumes after a match, or one character on when there is none.
RECURSIVE MatchFrom(_, _)
MatchFrom(text, i) ==
    IF i > Len(text) THEN <<>>
    ELSE LET n == DigitsFrom(text, i, 4)
         IN  IF n >= 3
             THEN <<SubSeq(text, i, i + n - 1)>> \o MatchFrom(text, i + n)
             ELSE MatchFrom(text, i + 1)

\* String.prototype.match with a global regex: null when nothing matches.
MatchDigits(text) ==
    LET m == MatchFrom(text, 1)
    IN  IF m = <<>> THEN NULL ELSE Some(m)

\* Number of leading white-space characters of s.
RECURSIVE SkipSpace(_, _)
SkipSpace(s, i) ==
    IF i <= Len(s) /\ IsSpace(s[i]) THEN SkipSpace(s, i + 1) ELSE i

\* parseInt(s) without a radix, for input without a 0x prefix: leading white
\* space, an optional sign, then the longest run of decimal digits; NaN when
\* that run is empty.
parseInt(s) ==
    LET i    == SkipSpace(s, 1)
        neg  == i <= Len(s) /\ s[i] = "-"
        j    == IF i <= Len(s) /\ s[i] \in {"-", "+"} THEN i + 1 ELSE i
        n    == DigitsFrom(s, j, Len(s))
        v    == DecimalValue(SubSeq(s, j, j + n - 1))
    IN  IF n = 0 THEN [nan |-> TRUE, value |-> 0]
        ELSE [nan |-> FALSE, value |-> IF neg THEN 0 - v ELSE v]

NaN == "NaN"

\* The JavaScript number a parseInt result is.
NumberOf(p) == IF p.nan THEN NaN ELSE p.value

\* parseInt(value) || 0 : NaN and 0 are falsy.
OrZero(p) == IF p.nan \/ p.value = 0 THEN 0 ELSE p.value

MinNumbers == 10

\* Lines 195-207 of performOCR: the Stats, or null.
ParseNumbers(text) ==
    LET numbers == MatchDigits(text)
    IN  IF numbers = NULL \/ Len(Val(numbers)) < MinNumbers THEN NULL
        ELSE Some(MkStats([k \in 1..10 |-> NumberOf(parseInt(Val(numbers)[k]))]))

----------------------------------------------------------------------------
\* Evaluation (calculateEvaluation)

\* distanceCoef, times ten.
distanceCoef ==
    [short  |-> [speed |-> 10, stamina |-> 5,  power |-> 10, guts |-> 5,  wisdom |-> 5],
     mile   |-> [speed |-> 10, stamina |-> 7,  power |-> 10, guts |-> 7,  wisdom |-> 7],
     middle |-> [speed |-> 10, stamina |-> 10, power |-> 10, guts |-> 10, wisdom |-> 10],
     long   |-> [speed |-> 8,  stamina |-> 12, power |-> 8,  guts |-> 12, wisdom |-> 12]]

\* strategyCoef, times ten.
strategyCoef ==
    [nige   |-> [speed |-> 12, stamina |-> 11, power |-> 10, guts |-> 10, wisdom |-> 9],
     senko  |-> [speed |-> 11, stamina |-> 10, power |-> 11, guts |-> 10, wisdom |-> 10],
     sashi  |-> [speed |-> 10, stamina |-> 10, power |-> 11, guts |-> 11, wisdom |-> 10],
     oikomi |-> [speed |-> 9,  stamina |-> 10, power |-> 12, guts |-> 12, wisdom |-> 11]]

\* Math.round of a value given in hundredths: floor(x + 0.5).
\* (The code's products are IEEE doubles, within 1e-9 of the exact decimal
\* value; Math.round of the double is this value except possibly when the
\* exact value is a tie k + 0.5, where the double can lie just below it.)
MathRound(h) == (h + 50) \div 100

\* The per-stat products of lines 234-240, in hundredths.
Evaluation(s, d, g) ==
    [n \in StatSet |-> s[n].current * distanceCoef[d][n] * strategyCoef[g][n]]

\* Variant: the products rounded one by one before they are summed.
TotalOfRounded(ev) ==
    MathRound(ev.speed) + MathRound(ev.stamina) + MathRound(ev.power)
        + MathRound(ev.guts) + MathRound(ev.wisdom)

\* const total = Math.round(speed + stamina + power + guts + wisdom)
Total(ev) ==
    MathRound(ev.speed + ev.stamina + ev.power + ev.guts + ev.wisdom)

\* Variant: a threshold compared with > instead of >=.
getRatingStrict(total) ==
    IF total > 6000 THEN "SS"
    ELSE IF total >= 5500 THEN "S"
    ELSE IF total >= 5000 THEN "A+"
    ELSE IF total >= 4500 THEN "A"
    ELSE IF total >= 4000 THEN "B"
    ELSE "C"

getRating(total) ==
    IF total >= 6000 THEN "SS"
    ELSE IF total >= 5500 THEN "S"
    ELSE IF total >= 5000 THEN "A+"
    ELSE IF total >= 4500 THEN "A"
    ELSE IF total >= 4000 THEN "B"
    ELSE "C"

calculateEvaluation(s, d, g) ==
    LET evaluation == Evaluation(s, d, g)
        total      == Total(evaluation)
    IN  [individual |-> evaluation, total |-> total, rating |-> getRating(total)]

\* The score shown for one stat: Math.round(value), line 430.
Displayed(result, n) == MathRound(result.individual[n])

----------------------------------------------------------------------------
\* Bounds and inputs of the App specification

\* captureAndAnalyze invocations that may be suspended at the same time.
MaxRuns == 2

\* Manual edits in one behaviour.
MaxEdits == 1

\* The distance and strategy the component is constructed with (useState).
InitDistance == "middle"

InitStrategy == "nige"

\* The distance and strategy buttons pressed in the App specification.
PressedDistances == {"middle", "long"}

PressedStrategies == {"nige", "oikomi"}

\* The file captureScreen resolves to.
Uris == {"file:///cache/shot.png"}

\* Texts Tesseract.recognize returns in the App specification: ten numbers,
\* and nine numbers (the ninth run has two digits only).
OcrTexts ==
    { <<"8","1","2","/","1","2","0","0"," ","6","5","0","/","1","2","0","0"," ",
        "7","0","3","/","1","2","0","0"," ","4","1","5","/","1","2","0","0"," ",
        "5","9","0","/","1","2","0","0">>,
      <<"8","1","2","/","1","2","0","0"," ","6","5","0","/","1","2","0","0"," ",
        "7","0","3","/","1","2","0","0"," ","4","1","5","/","1","2","0","0"," ",
        "5","9","/","1","2","0","0">> }

\* Texts typed into a TextInput: empty, a letter, a negative number, a number.
EditInputs == { <<>>, <<"x">>, <<"-","5">>, <<"1","2">> }

\* The stats whose TextInputs are typed into.
EditedStats == {"speed", "guts"}

----------------------------------------------------------------------------
\* captureAndAnalyze invocations

\* An invocation in flight: where it is suspended, and the distance and
\* strategy of the render whose closure it is.
Run(pc, d, g) == [pc |-> pc, distance |-> d, strategy |-> g]

InFlight == BagToSet(runs)

NumInFlight == BagCardinality(runs)

Suspend(r) == runs (+) SetToBag({r})

Resume(r) == runs (-) SetToBag({r})

\* The outcome of the handler step taken last: what it was and the alerts
\* (Alert.alert) it raised.
Step(op, alerts) == [op |-> op, alerts |-> alerts]

Quiet == Step("other", <<>>)

\* The number extraction has not been applied / has returned result.
NotExtracted == [done |-> FALSE, result |-> NULL]

ExtractedAs(result) == [done |-> TRUE, result |-> result]

pureVars == <<ocrText, extracted>>

appVars == <<stats, calculated, distance, strategy, capturedImage, loading, runs>>

overlayVars == <<overlayEnabled, hasPermission, request>>

\* The synchronous part of captureAndAnalyze, up to await captureScreen(...).
\* d and g are the distance and strategy of the render whose closure is called.
StartRun(d, g) ==
    /\ NumInFlight < MaxRuns
    /\ loading' = TRUE
    /\ runs' = Suspend(Run("captureScreen", d, g))
    /\ last' = Quiet
    /\ UNCHANGED <<stats, calculated, distance, strategy, capturedImage>>

\* The test capture button (onPress={captureAndAnalyze} disabled={loading}):
\* the closure of the current render.
PressTestCapture ==
    /\ ~loading
    /\ StartRun(distance, strategy)
    /\ UNCHANGED <<overlayVars, pureVars, edits>>

\* A CAPTURE_SCREEN event reaches the DeviceEventEmitter listener.  The
\* listener was registered by the effect of the first render (deps []), so it
\* is that render's handleCaptureFromOverlay and captureAndAnalyze.
handleCaptureFromOverlay ==
    /\ StartRun(InitDistance, InitStrategy)
    /\ UNCHANGED <<overlayVars, pureVars, edits>>

\* Variant: the catch block without its setLoading(false).
CaptureFailsStillLoading(r) ==
    /\ r.pc = "captureScreen"
    /\ runs' = Resume(r)
    /\ last' = Step("captureFailed", <<"capture_failed">>)
    /\ UNCHANGED <<stats, calculated, distance, strategy, capturedImage, loading,
                   overlayVars, pureVars, edits>>

\* captureScreen rejects: the catch block.
CaptureFails(r) ==
    /\ r.pc = "captureScreen"
    /\ loading' = FALSE
    /\ runs' = Resume(r)
    /\ last' = Step("captureFailed", <<"capture_failed">>)
    /\ UNCHANGED <<stats, calculated, distance, strategy, capturedImage,
                   overlayVars, pureVars, edits>>

\* captureScreen resolves: setCapturedImage(uri), then await performOCR(uri).
CaptureSucceeds(r, uri) ==
    /\ r.pc = "captureScreen"
    /\ capturedImage' = Some(uri)
    /\ runs' = Resume(r) (+) SetToBag({[r EXCEPT !.pc = "performOCR"]})
    /\ last' = Quiet
    /\ UNCHANGED <<stats, calculated, distance, strategy, loading,
                   overlayVars, pureVars, edits>>

\* Variant: the else branch without its setStats(placeholder).
FinishRunNoPlaceholder(r, extractedStats, why) ==
    /\ IF extractedStats # NULL
       THEN /\ stats' = extractedStats
            /\ calculated' = Some(calculateEvaluation(Val(extractedStats),
                                                      r.distance, r.strategy))
            /\ last' = Step("analyzed", <<>>)
       ELSE /\ stats' = stats
            /\ calculated' = calculated
            /\ last' = Step(why, <<"read_failed">>)
    /\ loading' = FALSE
    /\ runs' = Resume(r)
    /\ UNCHANGED <<distance, strategy, capturedImage, overlayVars, pureVars, edits>>

\* Variant: the success path without its setLoading(false).
FinishRunKeepsLoading(r, extractedStats, why) ==
    /\ IF extractedStats # NULL
       THEN /\ stats' = extractedStats
            /\ calculated' = Some(calculateEvaluation(Val(extractedStats),
                                                      r.distance, r.strategy))
            /\ last' = Step("analyzed", <<>>)
            /\ loading' = loading
       ELSE /\ stats' = Some(ZeroStats)
            /\ calculated' = calculated
            /\ last' = Step(why, <<"read_failed">>)
            /\ loading' = FALSE
    /\ runs' = Resume(r)
    /\ UNCHANGED <<distance, strategy, capturedImage, overlayVars, pureVars, edits>>

\* The rest of captureAndAnalyze once performOCR has returned extractedStats.
FinishRun(r, extractedStats, why) ==
    /\ IF extractedStats # NULL
       THEN /\ stats' = extractedStats
            /\ calculated' = Some(calculateEvaluation(Val(extractedStats),
                                                      r.distance, r.strategy))
            /\ last' = Step("analyzed", <<>>)
       ELSE /\ stats' = Some(ZeroStats)
            /\ calculated' = calculated
            /\ last' = Step(why, <<"read_failed">>)
    /\ loading' = FALSE
    /\ runs' = Resume(r)
    /\ UNCHANGED <<distance, strategy, capturedImage, overlayVars, pureVars, edits>>

\* ImageManipulator.manipulate or Tesseract.recognize rejects inside
\* performOCR: its catch returns null.
OcrThrows(r) ==
    /\ r.pc = "performOCR"
    /\ FinishRun(r, NULL, "ocrError")

\* What performOCR extracts from each of the texts (ParseNumbers, tabulated).
Extracted == [text \in OcrTexts |-> ParseNumbers(text)]

\* Tesseract.recognize resolves with text inside performOCR: the numbers are
\* extracted from it.
RecognizeSucceeds(r, text) ==
    /\ r.pc = "performOCR"
    /\ FinishRun(r, Extracted[text], "tooFewNumbers")

----------------------------------------------------------------------------
\* Manual input

\* Variant: the pair of the edited stat is built anew instead of copied, so
\* that its other field is reset.
handleStatChangeNoSpread(stat, field, value) ==
    /\ edits < MaxEdits
    /\ edits' = edits + 1
    /\ last' = Step("handleStatChange", <<>>)
                 @@ [stat |-> stat, field |-> field, nan |-> parseInt(value).nan]
    /\ IF stats = NULL
       THEN UNCHANGED <<stats, calculated>>
       ELSE LET newStats == [Val(stats) EXCEPT
                               ![stat] = [[current |-> 0, max |-> 0] EXCEPT
                                             ![field] = OrZero(parseInt(value))]]
            IN  /\ stats' = Some(newStats)
                /\ calculated' = Some(calculateEvaluation(newStats, distance, strategy))
    /\ UNCHANGED <<distance, strategy, capturedImage, loading, runs,
                   overlayVars, pureVars>>

\* handleStatChange(stat, field, value).  The TextInputs are rendered while
\* stats is set; the handler has its own guard for stats being null.
handleStatChange(stat, field, value) ==
    /\ edits < MaxEdits
    /\ edits' = edits + 1
    /\ last' = Step("handleStatChange", <<>>)
                 @@ [stat |-> stat, field |-> field, nan |-> parseInt(value).nan]
    /\ IF stats = NULL
       THEN UNCHANGED <<stats, calculated>>
       ELSE LET newStats == [Val(stats) EXCEPT ![stat][field] = OrZero(parseInt(value))]
            IN  /\ stats' = Some(newStats)
                /\ calculated' = Some(calculateEvaluation(newStats, distance, strategy))
    /\ UNCHANGED <<distance, strategy, capturedImage, loading, runs,
                   overlayVars, pureVars>>

\* A distance button (rendered when stats is set).
SelectDistance(key) ==
    /\ stats # NULL
    /\ distance' = key
    /\ calculated' = Some(calculateEvaluation(Val(stats), key, strategy))
    /\ last' = Quiet
    /\ UNCHANGED <<stats, strategy, capturedImage, loading, runs,
                   overlayVars, pureVars, edits>>

\* A strategy button (rendered when stats is set).
SelectStrategy(key) ==
    /\ stats # NULL
    /\ strategy' = key
    /\ calculated' = Some(calculateEvaluation(Val(stats), distance, key))
    /\ last' = Quiet
    /\ UNCHANGED <<stats, distance, capturedImage, loading, runs,
                   overlayVars, pureVars, edits>>

----------------------------------------------------------------------------
\* The App: the pipeline, the manual input and the CAPTURE_SCREEN listener

Init ==
    /\ stats = NULL
    /\ calculated = NULL
    /\ distance = InitDistance
    /\ strategy = InitStrategy
    /\ capturedImage = NULL
    /\ loading = FALSE
    /\ overlayEnabled = FALSE
    /\ hasPermission = FALSE
    /\ runs = EmptyBag
    /\ request = "none"
    /\ last = Step("mount", <<>>)
    /\ edits = 0
    /\ ocrText = <<>>
    /\ extracted = NotExtracted

Pipeline ==
    \/ \E r \in InFlight : CaptureFails(r)
    \/ \E r \in InFlight, uri \in Uris : CaptureSucceeds(r, uri)
    \/ \E r \in InFlight : OcrThrows(r)
    \/ \E r \in InFlight, text \in OcrTexts : RecognizeSucceeds(r, text)

Next ==
    \/ PressTestCapture
    \/ handleCaptureFromOverlay
    \/ Pipeline
    \/ \E stat \in EditedStats, field \in Fields, value \in EditInputs :
          handleStatChange(stat, field, value)
    \/ \E key \in PressedDistances : SelectDistance(key)
    \/ \E key \in PressedStrategies : SelectStrategy(key)

Spec == Init /\ [][Next]_vars

\* The two awaits of captureAndAnalyze, and the values an invocation closed
\* over: every record an invocation in flight can be.
RunKinds ==
    { Run(pc, d, g) : pc \in {"captureScreen", "performOCR"},
                      d \in PressedDistances \cup {InitDistance},
                      g \in PressedStrategies \cup {InitStrategy} }

\* The promise that invocation r awaits is settled, either way.
RunStep(r) ==
    /\ r \in InFlight
    /\ \/ CaptureFails(r)
       \/ \E uri \in Uris : CaptureSucceeds(r, uri)
       \/ OcrThrows(r)
       \/ \E text \in OcrTexts : RecognizeSucceeds(r, text)

\* The triggers, the pipeline and the two selectors: every step that reads
\* or writes loading or runs, or sets what an invocation closes over.
\* handleStatChange touches neither and is left to Spec.
NextRuns ==
    \/ PressTestCapture
    \/ handleCaptureFromOverlay
    \/ Pipeline
    \/ \E key \in PressedDistances : SelectDistance(key)
    \/ \E key \in PressedStrategies : SelectStrategy(key)

\* captureScreen and the calls inside performOCR each resolve or reject in
\* the end, for every invocation; nothing obliges a trigger or a selection
\* to happen.
FairSpec ==
    /\ Init
    /\ [][NextRuns]_vars
    /\ \A r \in RunKinds : WF_vars(RunStep(r))

----------------------------------------------------------------------------
\* Overlay: permission, service, and the capture button of OverlayService.
\* These steps read and write overlayEnabled, hasPermission and request only,
\* so they are composed with the pipeline in a specification of their own.

\* checkAndRequestPermissions on Android: OverlayModule.checkOverlayPermission
\* resolves to granted (Settings.canDrawOverlays).
CheckPermissions(granted) ==
    /\ hasPermission' = granted
    /\ last' = Step("checkAndRequestPermissions",
                    IF granted THEN <<>> ELSE <<"permission_needed">>)

\* The effect's call at mount and the permission button (shown while
\* hasPermission is false).
checkAndRequestPermissions(granted) ==
    /\ ~hasPermission
    /\ CheckPermissions(granted)
    /\ UNCHANGED <<appVars, overlayEnabled, request, pureVars, edits>>

\* OverlayModule.startOverlayService / stopOverlayService keep the service in
\* step with overlayEnabled.
ServiceRunning == overlayEnabled

\* The overlay button while overlayEnabled is false.  (startOverlayService is
\* a void @ReactMethod: the call cannot reject, so the catch is not entered.)
startOverlay(granted) ==
    /\ ~overlayEnabled
    /\ IF ~hasPermission
       THEN /\ CheckPermissions(granted)
            /\ UNCHANGED overlayEnabled
       ELSE /\ overlayEnabled' = TRUE
            /\ last' = Step("startOverlay", <<"overlay_started">>)
            /\ UNCHANGED hasPermission
    /\ UNCHANGED <<appVars, request, pureVars, edits>>

\* The overlay button while overlayEnabled is true.
stopOverlay ==
    /\ overlayEnabled
    /\ overlayEnabled' = FALSE
    /\ last' = Quiet
    /\ UNCHANGED <<appVars, hasPermission, request, pureVars, edits>>

\* OverlayService: captureButton's OnClickListener calls
\* sendEventToReactNative: sendBroadcast(new Intent("CAPTURE_SCREEN")).
sendEventToReactNative ==
    /\ ServiceRunning
    /\ request' = "broadcast"
    /\ last' = Quiet
    /\ UNCHANGED <<appVars, overlayEnabled, hasPermission, pureVars, edits>>

\* The receivers of the Android broadcast CAPTURE_SCREEN that emit the
\* DeviceEventEmitter event of that name: the sources register none
\* (no BroadcastReceiver, no RCTDeviceEventEmitter.emit).
CaptureScreenReceivers == {}

\* Android hands the broadcast Intent to the registered receivers; one that
\* emits the event would run the listener.
BroadcastDispatch ==
    /\ request = "broadcast"
    /\ IF CaptureScreenReceivers = {}
       THEN /\ request' = "unreceived"
            /\ last' = Quiet
            /\ UNCHANGED appVars
       ELSE /\ request' = "delivered"
            /\ StartRun(InitDistance, InitStrategy)
    /\ UNCHANGED <<overlayEnabled, hasPermission, pureVars, edits>>

Overlay ==
    \/ \E granted \in BOOLEAN : checkAndRequestPermissions(granted)
    \/ \E granted \in BOOLEAN : startOverlay(granted)
    \/ stopOverlay
    \/ sendEventToReactNative
    \/ BroadcastDispatch

NextOverlay ==
    \/ Overlay
    \/ PressTestCapture
    \/ handleCaptureFromOverlay
    \/ Pipeline

OverlaySpec == Init /\ [][NextOverlay]_vars

\* Android delivers a broadcast that was sent, and the promises the pipeline
\* awaits are settled; nothing obliges a CAPTURE_SCREEN event or a button
\* press to happen.
FairOverlaySpec ==
    OverlaySpec /\ WF_vars(BroadcastDispatch) /\ WF_vars(Pipeline)

----------------------------------------------------------------------------
\* calculateEvaluation applied to a range of Stats

\* Small values of current, besides the round ones.
MaxSmall == 2

\* speed.current: the values around the rating thresholds.
SpeedValues ==
    {0, 1000, 3999, 4000, 4499, 4500, 4999, 5000, 5499, 5500, 5999, 6000}

OtherValues == 0..MaxSmall \cup {1000}

\* max is not read by calculateEvaluation.
EvalStats ==
    { MkStats(<<sp, 1200, st, 1200, po, 1200, gu, 1200, wi, 1200>>) :
        sp \in SpeedValues, st \in OtherValues, po \in OtherValues,
        gu \in OtherValues, wi \in OtherValues }

InitEval ==
    /\ stats \in {Some(s) : s \in EvalStats}
    /\ calculated = NULL
    /\ distance \in Distances
    /\ strategy \in Strategies
    /\ capturedImage = NULL
    /\ loading = FALSE
    /\ overlayEnabled = FALSE
    /\ hasPermission = FALSE
    /\ runs = EmptyBag
    /\ request = "none"
    /\ last = Step("mount", <<>>)
    /\ edits = 0
    /\ ocrText = <<>>
    /\ extracted = NotExtracted

\* setCalculated(calculateEvaluation(stats, distance, strategy))
Evaluate ==
    /\ calculated = NULL
    /\ calculated' = Some(calculateEvaluation(Val(stats), distance, strategy))
    /\ UNCHANGED <<stats, distance, strategy, capturedImage, loading, runs, last,
                   overlayVars, pureVars, edits>>

NextEval == Evaluate

SpecEval == InitEval /\ [][NextEval]_vars

----------------------------------------------------------------------------
\* The number extraction applied to a range of texts

\* Pieces a text is put together from.
MaxPieces == 6

\* Two numbers; a two-digit number; a five-digit number; four digits that run
\* into the piece that follows.
Pieces ==
    { <<"8","1","2","/","1","2","0","0"," ">>,
      <<"6","5"," ">>,
      <<"1","2","3","4","5"," ">>,
      <<"0","7","3","1">> }

RECURSIVE TextsOf(_)
TextsOf(n) ==
    IF n = 0 THEN { <<>> }
    ELSE LET shorter == TextsOf(n - 1)
         IN  shorter \cup { t \o p : t \in shorter, p \in Pieces }

InitOCR ==
    /\ stats = NULL
    /\ calculated = NULL
    /\ distance = InitDistance
    /\ strategy = InitStrategy
    /\ capturedImage = NULL
    /\ loading = FALSE
    /\ overlayEnabled = FALSE
    /\ hasPermission = FALSE
    /\ runs = EmptyBag
    /\ request = "none"
    /\ last = Step("mount", <<>>)
    /\ edits = 0
    /\ ocrText \in TextsOf(MaxPieces)
    /\ extracted = NotExtracted

\* The extraction of performOCR on the recognized text.
Extract ==
    /\ ~extracted.done
    /\ extracted' = ExtractedAs(ParseNumbers(ocrText))
    /\ UNCHANGED <<appVars, overlayVars, last, edits, ocrText>>

NextOCR == Extract

SpecOCR == InitOCR /\ [][NextOCR]_vars

----------------------------------------------------------------------------
\* Properties

\* C1: whenever stats and calculated are both set, calculated is
\* calculateEvaluation(stats, distance, strategy) for the selected distance
\* and strategy.
C1_CalculatedIsProjection ==
    (stats # NULL /\ calculated # NULL) =>
        Val(calculated) = calculateEvaluation(Val(stats), distance, strategy)

\* C2: at most one captureAndAnalyze invocation is in flight at any time.
C2_RunsSerialized == NumInFlight <= 1

\* The maximal runs of decimal digits of text from position i on (i starts a
\* run or is no digit).
RECURSIVE DigitRunsFrom(_, _)
DigitRunsFrom(text, i) ==
    IF i > Len(text) THEN <<>>
    ELSE LET n == DigitsFrom(text, i, Len(text))
         IN  IF n = 0 THEN DigitRunsFrom(text, i + 1)
             ELSE <<SubSeq(text, i, i + n - 1)>> \o DigitRunsFrom(text, i + n)

\* The runs of three or four digits, in order of appearance.
StatTokens(text) == SelectSeq(DigitRunsFrom(text, 1), LAMBDA run : Len(run) \in 3..4)

\* C3: the extraction returns null when the text has fewer than ten runs of
\* three or four digits, and otherwise the Stats whose ten values are the
\* first ten such runs, in the order speed, stamina, power, guts, wisdom,
\* current before max.
C3_ExtractionByDigitRuns ==
    extracted.done =>
        LET tokens == StatTokens(ocrText)
        IN  IF Len(tokens) < 10 THEN extracted.result = NULL
            ELSE extracted.result =
                    Some(MkStats([k \in 1..10 |-> DecimalValue(tokens[k])]))

\* i is an integer nearest to the value h, given in hundredths.
Nearest(i, h) == 100 * i - h \in -50..50

AllCurrent(v) == \A n \in StatSet : Val(stats)[n].current = v

DisplayedScores ==
    [k \in 1..5 |-> Displayed(Val(calculated), StatNames[k])]

\* C4: total is the sum of the five unrounded products current x distance
\* coefficient x strategy coefficient, rounded to the nearest integer; each
\* displayed score is its product rounded to the nearest integer; and all
\* stats at 1000 give [1200,1100,1000,1000,900] and 5200 for middle/nige,
\* [720,1200,960,1440,1320] and 5640 for long/oikomi.
C4_TotalFromUnroundedProducts ==
    calculated # NULL =>
        LET s == Val(stats)
            product(n) == s[n].current * distanceCoef[distance][n]
                                       * strategyCoef[strategy][n]
            sum == product("speed") + product("stamina") + product("power")
                     + product("guts") + product("wisdom")
        IN  /\ Nearest(Val(calculated).total, sum)
            /\ \A n \in StatSet : Nearest(Displayed(Val(calculated), n), product(n))
            /\ (AllCurrent(1000) /\ distance = "middle" /\ strategy = "nige") =>
                  /\ DisplayedScores = <<1200, 1100, 1000, 1000, 900>>
                  /\ Val(calculated).total = 5200
            /\ (AllCurrent(1000) /\ distance = "long" /\ strategy = "oikomi") =>
                  /\ DisplayedScores = <<720, 1200, 960, 1440, 1320>>
                  /\ Val(calculated).total = 5640

\* C4 witness: a result whose total differs from the sum of the rounded
\* per-stat scores.
C4_Witness ==
    /\ calculated # NULL
    /\ Val(calculated).total # TotalOfRounded(Val(calculated).individual)

\* C5: the rating is fixed by total through the threshold table.
C5_RatingByThresholds ==
    calculated # NULL =>
        LET t == Val(calculated).total
            r == Val(calculated).rating
        IN  /\ r = "SS" <=> t >= 6000
            /\ r = "S"  <=> (5500 <= t /\ t <= 5999)
            /\ r = "A+" <=> (5000 <= t /\ t <= 5499)
            /\ r = "A"  <=> (4500 <= t /\ t <= 4999)
            /\ r = "B"  <=> (4000 <= t /\ t <= 4499)
            /\ r = "C"  <=> t < 4000

\* C5 witness: total is exactly 6000 and the rating is SS.
C5_Witness ==
    /\ calculated # NULL
    /\ Val(calculated).total = 6000
    /\ Val(calculated).rating = "SS"

\* C6: a captureAndAnalyze invocation whose capture fails ends there (it is
\* not suspended again, so neither OCR nor evaluation nor a second capture
\* follows), raises exactly one alert, sets loading to false, and neither its
\* start nor its failure changes stats, calculated or capturedImage.
C6_CaptureFailureAborts ==
    [][ /\ NumInFlight' > NumInFlight =>
              UNCHANGED <<stats, calculated, capturedImage>>
        /\ last'.op = "captureFailed" =>
              /\ \E r \in InFlight : /\ r.pc = "captureScreen"
                                     /\ runs' = runs (-) SetToBag({r})
              /\ Len(last'.alerts) = 1
              /\ loading' = FALSE
              /\ UNCHANGED <<stats, calculated, capturedImage>> ]_vars

\* C6 witness: a capture has just failed with a result on display.
C6_Witness ==
    /\ last.op = "captureFailed"
    /\ stats # NULL /\ calculated # NULL /\ capturedImage # NULL
    /\ ~loading

\* C7: when the capture succeeded and performOCR yields nothing (the OCR call
\* fails, or the text has fewer than ten numbers), the invocation ends with
\* stats the all-zero Stats, the prompt for manual input as the only alert,
\* and loading false.
C7_ExtractionFailureFallsBack ==
    [][ /\ last'.op \in {"ocrError", "tooFewNumbers"} =>
              /\ \E r \in InFlight : /\ r.pc = "performOCR"
                                     /\ runs' = runs (-) SetToBag({r})
              /\ stats' = Some(ZeroStats)
              /\ last'.alerts = <<"read_failed">>
              /\ loading' = FALSE
        /\ \A r \in InFlight, text \in OcrTexts :
              (RecognizeSucceeds(r, text) /\ Len(MatchFrom(text, 1)) < 10) =>
                  last'.op = "tooFewNumbers"
        /\ \A r \in InFlight : OcrThrows(r) => last'.op = "ocrError" ]_vars

\* C7 witness: a text with too few numbers has just replaced extracted stats
\* by the placeholder.
C7_Witness ==
    /\ last.op = "tooFewNumbers"
    /\ stats = Some(ZeroStats)
    /\ calculated # NULL
    /\ ~loading

\* C8: every value of stats is a non-negative integer.
C8_StatsNonNegative ==
    stats # NULL =>
        \A n \in StatSet, f \in Fields : Val(stats)[n][f] \in Nat

C10_CaptureRequestStartsRun ==
    (request = "broadcast") ~> (request = "delivered")

\* C12: loading tracks the pipeline: whenever some captureAndAnalyze
\* invocation has started and not yet ended, whichever trigger started it,
\* loading is true (and so the test capture button is disabled).
C12_LoadingTracksRuns ==
    NumInFlight > 0 => loading

\* C13: every captureAndAnalyze invocation ends with loading reset, given
\* that the promises it awaits are settled: an invocation leaves the
\* pipeline only by a step that sets loading false, on the capture-failure,
\* extraction-failure and extraction-success paths alike; loading is false
\* whenever no invocation is in flight; a loading app stops loading in the
\* end; and once no new invocation starts, all of them end and loading stays
\* false.
C13_RunsEndWithLoadingReset ==
    /\ [][NumInFlight' < NumInFlight =>
             /\ ~loading'
             /\ last'.op \in {"captureFailed", "ocrError", "tooFewNumbers",
                              "analyzed"}]_vars
    /\ [](NumInFlight = 0 => ~loading)
    /\ loading ~> ~loading
    /\ (<>[][NumInFlight' <= NumInFlight]_vars)
          => <>[](NumInFlight = 0 /\ ~loading)

\* C13 witness: an invocation that extracted stats has ended, none is in
\* flight, and loading is false again.
C13_Witness ==
    /\ last.op = "analyzed"
    /\ capturedImage # NULL
    /\ NumInFlight = 0
    /\ ~loading

====
